---- MODULE Spec2Model ----
(***************************************************************************)
(* State-machine model of electron-panel's main-process module             *)
(* (src/lib/main.js): the window -> panels registry, the window locator,   *)
(* the outbound send and the lifecycle / control-message handlers.          *)
(*                                                                         *)
(* Every handler runs to completion on the main process's event loop, so   *)
(* each handler is one atomic action.  `last` records what the most recent *)
(* handler was given and what it did that is visible outside the registry: *)
(* its console.error diagnostic, its return value, the messages it handed  *)
(* to webContents.send, the sessions it opened and the callbacks it called.*)
(***************************************************************************)
EXTENDS Integers, Sequences, FiniteSets, TLC

VARIABLES
  winID2panelIDs,  \* main.js:7   BrowserWindow.id -> array of panelIDs (a JS object: its keys are its DOMAIN)
  openWindows,     \* ids of the BrowserWindows that currently exist (BrowserWindow.fromId finds exactly these)
  nextSessionId,   \* the counter ipcPlus.internal._newSession draws session ids from
  id2sessionInfo,  \* the session tracker's table: the sessions still waiting, oldest first
  held,            \* the array a caller of panel.getPanels holds: <<>> or <<[win, live]>>
  last             \* observation of the most recent handler

vars == <<winID2panelIDs, openWindows, nextSessionId, id2sessionInfo, held, last>>

-----------------------------------------------------------------------------
(* Bounds *)

MaxWin == 2          \* window ids are 1..MaxWin
MaxPlainArgs == 2    \* number of ordinary arguments in front of the optional callback / timeout
MaxSessions == 2     \* sessions opened over a run
MaxPending == 1      \* sessions waiting at a time where replies and timeouts are modelled

WindowIDs == 1..MaxWin
\* the panel ids renderers register
PanelIDs == {"panelA", "panelB", "panelC"}
\* the panel ids used where panel.send is exercised as well
SendPanelIDs == {"panelA", "panelB"}

null == 0            \* `null` / no BrowserWindow (window ids start at 1)

-----------------------------------------------------------------------------
(* JavaScript values that travel through send's variadic arguments *)

NoOpt == <<>>
Str(s) == [t |-> "string", s |-> s, n |-> 0, opt |-> NoOpt]
Num(n) == [t |-> "number", s |-> "", n |-> n, opt |-> NoOpt]
Fn(f) == [t |-> "function", s |-> f, n |-> 0, opt |-> NoOpt]

typeof(v) == v.t

DefaultTimeout == 5000

\* ipcPlus.option({...}): an object tagged as an ipc option
option(o) == [t |-> "object", s |-> "", n |-> 0, opt |-> <<o>>]

\* the i-th ordinary (serialisable) argument a caller passes
Arg(i) == [t |-> "string", s |-> "arg", n |-> i, opt |-> NoOpt]
replyCallback == Fn("replyCallback")

\* message names callers pass: a string, and a non-string
MessageValues == {Str("say-hello"), Num(42)}

PlainLists == {[i \in 1..k |-> Arg(i)] : k \in 0..MaxPlainArgs}
\* nothing, a trailing callback, a callback followed by a timeout, a bare number
Tails == {<<>>, <<replyCallback>>, <<replyCallback, Num(100)>>, <<Num(100)>>}
ArgLists == {pre \o tail : pre \in PlainLists, tail \in Tails}

-----------------------------------------------------------------------------
(* Array helpers *)

\* Array.prototype.indexOf: 0-based index of the first match, -1 if none
indexOf(arr, x) ==
  LET hits == {i \in 1..Len(arr) : arr[i] = x}
  IN IF hits = {} THEN -1 ELSE (CHOOSE i \in hits : \A j \in hits : i <= j) - 1

\* mutant: splice(idx) without the count drops everything from idx on
splice_toEnd(arr, idx) == SubSeq(arr, 1, idx)

\* arr.splice(idx, 1): the array without the element at 0-based idx
splice1(arr, idx) == SubSeq(arr, 1, idx) \o SubSeq(arr, idx + 2, Len(arr))

\* mutant: unshift instead of push
push_front(arr, x) == <<x>> \o arr

\* arr.push(x)
push(arr, x) == Append(arr, x)

\* delete obj[key]
delete(obj, key) == [k \in (DOMAIN obj) \ {key} |-> obj[k]]

\* obj[key] = v
assign(obj, key, v) == [k \in (DOMAIN obj) \cup {key} |-> IF k = key THEN v ELSE obj[k]]

-----------------------------------------------------------------------------
(* Window locator.  The registry and the set of existing windows are passed   *)
(* explicitly so that a lookup can be evaluated before and after a handler.    *)

\* BrowserWindow.fromId(id): the window with that id, or null
fromId(windows, id) == IF id \in windows THEN id ELSE null

\* mutant: the scan gives up after the first registry entry
findWindow_firstEntryOnly(registry, windows, panelID) ==
  IF DOMAIN registry = {} THEN null
  ELSE LET first == CHOOSE winID \in DOMAIN registry :
                      \A other \in DOMAIN registry : winID <= other
       IN IF indexOf(registry[first], panelID) # -1 THEN fromId(windows, first) ELSE null

\* panel.findWindow: for..in visits integer keys in ascending order
findWindow(registry, windows, panelID) ==
  LET hits == {winID \in DOMAIN registry : indexOf(registry[winID], panelID) # -1}
  IN IF hits = {} THEN null
     ELSE fromId(windows, CHOOSE winID \in hits : \A other \in hits : winID <= other)

\* panel.getPanels: <<the registry's array for win>>, or <<>> for undefined
getPanels(win) ==
  IF win \in DOMAIN winID2panelIDs THEN <<winID2panelIDs[win]>> ELSE <<>>


-----------------------------------------------------------------------------
(* Session tracker (electron-ipc-plus), as main.js uses it *)

\* ipcPlus.internal._popReplyAndTimeout(args): the callback at the last or the
\* 2nd last position and the timeout at the last; `rest` is args after the pop
\* (the array is spliced in place), found = FALSE stands for the null result
_popReplyAndTimeout(args) ==
  LET len == Len(args)
      none == [found |-> FALSE, reply |-> Str(""), timeout |-> 0, rest |-> args]
  IN IF len = 0 THEN none
     ELSE IF typeof(args[len]) = "number"
       THEN IF len < 2 \/ typeof(args[len - 1]) # "function" THEN none
            ELSE [found |-> TRUE, reply |-> args[len - 1], timeout |-> args[len].n,
                  rest |-> SubSeq(args, 1, len - 2)]
       ELSE IF typeof(args[len]) # "function" THEN none
            ELSE [found |-> TRUE, reply |-> args[len], timeout |-> DefaultTimeout,
                  rest |-> SubSeq(args, 1, len - 1)]

\* the id ipcPlus.internal._newSession(message, `${panelID}@main`, ...) returns
mainSessionId(panelID) == [panelID |-> panelID, at |-> "main", n |-> nextSessionId]

\* the session record _newSession files under that id
_newSession(message, panelID, reply, timeout) ==
  [sessionId |-> mainSessionId(panelID), message |-> message,
   callback |-> reply, timeout |-> timeout]

\* new ErrorNoPanel(panelID, message)
ErrorNoPanel(panelID, message) ==
  [code |-> "ENOPANEL", panelID |-> panelID, message |-> message]

-----------------------------------------------------------------------------
(* Dispatcher.  An effect is what one call did besides touching the registry:  *)
(* ret     <<>> for undefined, <<sessionId>> for a returned session id          *)
(* sent    the webContents.send calls, in order                                 *)
(* created the sessions opened                                                  *)
(* called  the callbacks invoked synchronously, in order                        *)
(* log     the console.error diagnostic, "none" if none                         *)

NoEffect ==
  [ret |-> <<>>, sent |-> <<>>, created |-> <<>>, called |-> <<>>, log |-> "none"]

\* lines 111-117 of _sendToPanel: no reply requested, a one-way message;
\* sendResult is what win.webContents.send returned (FALSE for `=== false`)
sendOneWay(win, panelID, message, args, sendResult) ==
  [NoEffect EXCEPT
     !.sent = <<[win |-> win, channel |-> "main2panel", panelID |-> panelID,
                 message |-> message, args |-> args]>>,
     !.log = IF sendResult = FALSE THEN "SendFailed" ELSE "none"]

\* mutant: the option carrying the session id is not appended
sendWaitForReply_noOption(win, panelID, message, opts) ==
  LET info == _newSession(message, panelID, opts.reply, opts.timeout)
  IN [NoEffect EXCEPT
        !.created = <<info>>,
        !.sent = <<[win |-> win, channel |-> "main2panel", panelID |-> panelID,
                    message |-> message, args |-> opts.rest]>>,
        !.ret = <<info.sessionId>>]

\* lines 119-129 of _sendToPanel: a reply was requested, a session is opened
sendWaitForReply(win, panelID, message, opts) ==
  LET info == _newSession(message, panelID, opts.reply, opts.timeout)
      sessionId == info.sessionId
  IN [NoEffect EXCEPT
        !.created = <<info>>,
        !.sent = <<[win |-> win, channel |-> "main2panel", panelID |-> panelID,
                    message |-> message,
                    args |-> opts.rest \o
                             <<option([sessionId |-> sessionId,
                                       waitForReply |-> TRUE,
                                       timeout |-> opts.timeout])>>]>>,
        !.ret = <<sessionId>>]

\* mutant: the typeof check on the message is missing
_sendToPanel_noTypeCheck(win, panelID, message, args, sendResult) ==
  LET opts == _popReplyAndTimeout(args) IN
  IF ~opts.found
  THEN sendOneWay(win, panelID, message, args, sendResult)
  ELSE sendWaitForReply(win, panelID, message, opts)

\* mutant: the one-way message is built without ...args
_sendToPanel_dropsArgs(win, panelID, message, args, sendResult) ==
  IF typeof(message) # "string"
  THEN [NoEffect EXCEPT !.log = "MessageNotString"]
  ELSE
    LET opts == _popReplyAndTimeout(args) IN
    IF ~opts.found
    THEN sendOneWay(win, panelID, message, <<>>, sendResult)
    ELSE sendWaitForReply(win, panelID, message, opts)

_sendToPanel(win, panelID, message, args, sendResult) ==
  IF typeof(message) # "string"
  THEN [NoEffect EXCEPT !.log = "MessageNotString"]
  ELSE
    LET opts == _popReplyAndTimeout(args) IN
    IF ~opts.found
    THEN sendOneWay(win, panelID, message, args, sendResult)
    ELSE sendWaitForReply(win, panelID, message, opts)

\* mutant: a send to a panel nobody owns returns without calling the callback
send_silentNoPanel(panelID, message, args, sendResult) ==
  LET win == findWindow(winID2panelIDs, openWindows, panelID) IN
  IF win = null
  THEN NoEffect
  ELSE _sendToPanel(win, panelID, message, args, sendResult)

\* panel.send
send(panelID, message, args, sendResult) ==
  LET win == findWindow(winID2panelIDs, openWindows, panelID) IN
  IF win = null
  THEN LET opts == _popReplyAndTimeout(args) IN
       IF opts.found
       THEN [NoEffect EXCEPT
               !.called = <<[fn |-> opts.reply, err |-> ErrorNoPanel(panelID, message)]>>]
       ELSE NoEffect
  ELSE _sendToPanel(win, panelID, message, args, sendResult)

-----------------------------------------------------------------------------
(* Inbound relay *)

\* the session id the renderer's own tracker gave its request
rendererSessionId == [panelID |-> "panelA", at |-> "renderer", n |-> 1]

\* the options a renderer may append: ipcPlus.option({sessionId, waitForReply, timeout})
RelayOptions ==
  {option([sessionId |-> rendererSessionId, waitForReply |-> w, timeout |-> 100]) :
     w \in BOOLEAN}

\* ...args of a renderer2panel message: values that cross the process
\* boundary (no functions), optionally ending with an option
RelayArgLists ==
  {plain \o tail : plain \in {<<>>, <<Arg(1)>>},
                   tail \in {<<>>} \cup {<<o>> : o \in RelayOptions}}

\* ipcPlus.internal._popOptions(args): the trailing ipcPlus.option, popped off
\* args; found = FALSE stands for the null result
_popOptions(args) ==
  LET len == Len(args) IN
  IF len > 0 /\ args[len].opt # NoOpt
  THEN [found |-> TRUE, opts |-> args[len].opt[1], rest |-> SubSeq(args, 1, len - 1)]
  ELSE [found |-> FALSE, opts |-> [sessionId |-> rendererSessionId, waitForReply |-> FALSE, timeout |-> 0],
        rest |-> args]

\* the function (...replyArgs) => {...} of lines 144-155, a closure over sender
\* and opts
forwardReply(sender, opts) ==
  [t |-> "function", s |-> "forwardReply", n |-> sender, opt |-> <<opts>>]

\* ipcPlus.option({sessionId: opts.sessionId}) appended to a forwarded reply
replyOpts(sessionId) ==
  option([sessionId |-> sessionId, waitForReply |-> FALSE, timeout |-> 0])

\* mutant: the forwarded reply is sent without looking at sender.isDestroyed()
forwardReply_call_noLivenessCheck(fn, isDestroyed, replyArgs) ==
  [NoEffect EXCEPT
     !.sent = <<[win |-> fn.n, channel |-> "reply", panelID |-> "", message |-> Str(""),
                 args |-> replyArgs \o <<replyOpts(fn.opt[1].sessionId)>>]>>]

\* mutant: the forwarded reply is tagged with no session id of the sender's
forwardReply_call_untagged(fn, isDestroyed, replyArgs) ==
  IF isDestroyed THEN NoEffect
  ELSE [NoEffect EXCEPT
          !.sent = <<[win |-> fn.n, channel |-> "reply", panelID |-> "", message |-> Str(""),
                      args |-> replyArgs]>>]

\* a call of that function with replyArgs; isDestroyed is sender.isDestroyed()
forwardReply_call(fn, isDestroyed, replyArgs) ==
  IF isDestroyed THEN NoEffect
  ELSE [NoEffect EXCEPT
          !.sent = <<[win |-> fn.n, channel |-> "reply", panelID |-> "", message |-> Str(""),
                      args |-> replyArgs \o <<replyOpts(fn.opt[1].sessionId)>>]>>]

\* mutant: the renderer's own option is passed on instead of a session of the
\* coordinating process
_renderer2panelOpts_passThrough(sender, panelID, message, args, sendResult) ==
  send(panelID, message, args, sendResult)

\* mutant: a session is opened whether or not a reply is waited for
_renderer2panelOpts_alwaysSession(sender, panelID, message, args, sendResult) ==
  LET popped == _popOptions(args)
      info == _newSession(message, panelID, forwardReply(sender, popped.opts),
                          popped.opts.timeout)
      down == send(panelID, message, popped.rest, sendResult)
  IN [down EXCEPT !.created = <<info>> \o @]

\* _renderer2panelOpts(event, panelID, message, ...args) with sender = event.sender.
\* The session of line 144 is opened before panel.send runs; panel.send opens
\* none itself here, its last argument being the option or a plain value
_renderer2panelOpts(sender, panelID, message, args, sendResult) ==
  IF Len(args) = 0
  THEN send(panelID, message, args, sendResult)
  ELSE
    LET popped == _popOptions(args) IN
    IF popped.found /\ popped.opts.waitForReply
    THEN LET info == _newSession(message, panelID, forwardReply(sender, popped.opts),
                                 popped.opts.timeout)
             down == send(panelID, message,
                          popped.rest \o <<option([sessionId |-> info.sessionId,
                                                   waitForReply |-> TRUE,
                                                   timeout |-> popped.opts.timeout])>>,
                          sendResult)
         IN [down EXCEPT !.created = <<info>> \o @]
    ELSE send(panelID, message, popped.rest, sendResult)

-----------------------------------------------------------------------------
(* Observation of a handler *)

\* had: getPanels(win) as the handler found it
Observe(op, win, panelID, message, args, eff) ==
  [op |-> op, win |-> win, panelID |-> panelID, message |-> message, args |-> args,
   had |-> IF win = null THEN <<>> ELSE getPanels(win),
   ret |-> eff.ret, sent |-> eff.sent, created |-> eff.created,
   called |-> eff.called, log |-> eff.log]

Logged(kind) == [NoEffect EXCEPT !.log = kind]

Range(seq) == {seq[i] : i \in 1..Len(seq)}

-----------------------------------------------------------------------------
(* The session tracker's table and the reference handed out by getPanels *)

\* the message carries an option with this session id
carries(msg, sessionId) ==
  \E i \in 1..Len(msg.args) :
    /\ msg.args[i].opt # NoOpt
    /\ msg.args[i].opt[1].sessionId = sessionId

\* the table entries for the sessions a call opened, oldest first.  n: the
\* number in the session's id; callback: the function the tracker is to call;
\* transmitted: a message with the session's id went to a window, so a reply
\* to it can come back; senderGone: the webContents the callback captured has
\* been destroyed
track(eff) ==
  [i \in 1..Len(eff.created) |->
     [n |-> eff.created[i].sessionId.n,
      callback |-> eff.created[i].callback,
      transmitted |-> \E j \in 1..Len(eff.sent) : carries(eff.sent[j], eff.created[i].sessionId),
      senderGone |-> FALSE]]

\* the window winID is closed: the webContents captured by the callbacks of
\* the sessions it asked for is destroyed
senderGone(table, winID) ==
  [i \in 1..Len(table) |->
     IF table[i].callback.opt # NoOpt /\ table[i].callback.n = winID
     THEN [table[i] EXCEPT !.senderGone = TRUE] ELSE table[i]]

\* session number n is in the table
waiting(table, n) == \E i \in 1..Len(table) : table[i].n = n

entryOf(table, n) == table[CHOOSE i \in 1..Len(table) : table[i].n = n]

\* the table without session number n
close(table, n) == SelectSeq(table, LAMBDA entry : entry.n # n)

\* what a callback is called with first: no error, or the timeout error
NoError == [code |-> "", panelID |-> "", message |-> Str("")]
ErrorTimeout == [code |-> "ETIMEOUT", panelID |-> "", message |-> Str("")]

\* the timeout error as an argument value
TimeoutValue == [t |-> "object", s |-> "ETIMEOUT", n |-> 0, opt |-> NoOpt]

\* the arguments of a panel's reply
ReplyArgs == <<Str("Hi")>>

\* the tracker calls the callback of a session: a callback handed to
\* panel.send is the caller's own code, a relay's is forwardReply
invoke(entry, err, args) ==
  LET eff == IF entry.callback.s = "forwardReply"
             THEN forwardReply_call(entry.callback, entry.senderGone, args)
             ELSE NoEffect
  IN [eff EXCEPT !.called = <<[fn |-> entry.callback, err |-> err]>>]

\* the entry of winID is deleted: an array handed out for it is no longer the registry's
detach(ref, winID) ==
  IF ref # <<>> /\ ref[1].win = winID THEN <<[ref[1] EXCEPT !.live = FALSE]>> ELSE ref

-----------------------------------------------------------------------------
(* Actions *)

Init ==
  /\ winID2panelIDs = <<>>
  /\ openWindows = {}
  /\ nextSessionId = 1
  /\ id2sessionInfo = <<>>
  /\ held = <<>>
  /\ last = Observe("init", null, "", Str(""), <<>>, NoEffect)

\* app.on('browser-window-created'): a window comes to exist, its 'closed'
\* observer is registered
BrowserWindowCreated(winID) ==
  /\ winID \notin openWindows
  /\ openWindows' = openWindows \cup {winID}
  /\ last' = Observe("created", winID, "", Str(""), <<>>, NoEffect)
  /\ UNCHANGED <<winID2panelIDs, nextSessionId, id2sessionInfo, held>>

\* mutant: the 'closed' observer is missing
WindowClosed_noDelete(winID) ==
  /\ winID \in openWindows
  /\ openWindows' = openWindows \ {winID}
  /\ id2sessionInfo' = senderGone(id2sessionInfo, winID)
  /\ last' = Observe("closed", winID, "", Str(""), <<>>, NoEffect)
  /\ UNCHANGED <<winID2panelIDs, nextSessionId, held>>

\* mutant: closing a window also cancels the sessions that are waiting
WindowClosed_cancelsSessions(winID) ==
  /\ winID \in openWindows
  /\ openWindows' = openWindows \ {winID}
  /\ winID2panelIDs' = delete(winID2panelIDs, winID)
  /\ id2sessionInfo' = <<>>
  /\ held' = detach(held, winID)
  /\ last' = Observe("closed", winID, "", Str(""), <<>>, NoEffect)
  /\ UNCHANGED nextSessionId

\* browserWin.once('closed', ...): the window is gone and its entry deleted
WindowClosed(winID) ==
  /\ winID \in openWindows
  /\ openWindows' = openWindows \ {winID}
  /\ winID2panelIDs' = delete(winID2panelIDs, winID)
  /\ id2sessionInfo' = senderGone(id2sessionInfo, winID)
  /\ held' = detach(held, winID)
  /\ last' = Observe("closed", winID, "", Str(""), <<>>, NoEffect)
  /\ UNCHANGED nextSessionId

\* mutant: only the sending window's own array is checked for the panel
AddPanel_ownWindowOnly(winID, panelID) ==
  /\ winID \in openWindows
  /\ LET panelIDs == IF winID \in DOMAIN winID2panelIDs
                      THEN winID2panelIDs[winID] ELSE <<>>
     IN IF indexOf(panelIDs, panelID) # -1
        THEN /\ last' = Observe("add", winID, panelID, Str(""), <<>>, Logged("DuplicatePanel"))
             /\ UNCHANGED winID2panelIDs
        ELSE /\ winID2panelIDs' = assign(winID2panelIDs, winID, push(panelIDs, panelID))
             /\ last' = Observe("add", winID, panelID, Str(""), <<>>, NoEffect)
  /\ UNCHANGED <<openWindows, nextSessionId, id2sessionInfo, held>>

\* ipcMain.on('electron-panel:add') from the renderer of window winID
AddPanel(winID, panelID) ==
  /\ winID \in openWindows
  /\ IF findWindow(winID2panelIDs, openWindows, panelID) # null
     THEN /\ last' = Observe("add", winID, panelID, Str(""), <<>>, Logged("DuplicatePanel"))
          /\ UNCHANGED winID2panelIDs
     ELSE /\ LET panelIDs == IF winID \in DOMAIN winID2panelIDs
                             THEN winID2panelIDs[winID] ELSE <<>>
             IN winID2panelIDs' = assign(winID2panelIDs, winID, push(panelIDs, panelID))
          /\ last' = Observe("add", winID, panelID, Str(""), <<>>, NoEffect)
  /\ UNCHANGED <<openWindows, nextSessionId, id2sessionInfo, held>>

\* mutant: the panel is removed from whichever window holds it
RemovePanel_fromOwner(winID, panelID) ==
  /\ winID \in openWindows
  /\ LET holders == {w \in DOMAIN winID2panelIDs : indexOf(winID2panelIDs[w], panelID) # -1}
     IN IF holders = {}
        THEN /\ last' = Observe("remove", winID, panelID, Str(""), <<>>, Logged("PanelNotFound"))
             /\ UNCHANGED winID2panelIDs
        ELSE LET w == CHOOSE w \in holders : TRUE
             IN /\ winID2panelIDs' =
                     assign(winID2panelIDs, w,
                            splice1(winID2panelIDs[w], indexOf(winID2panelIDs[w], panelID)))
                /\ last' = Observe("remove", winID, panelID, Str(""), <<>>, NoEffect)
  /\ UNCHANGED <<openWindows, nextSessionId, id2sessionInfo, held>>

\* mutant: an entry emptied by the removal is deleted
RemovePanel_deletesEmptyEntry(winID, panelID) ==
  /\ winID \in openWindows
  /\ IF winID \notin DOMAIN winID2panelIDs
     THEN /\ last' = Observe("remove", winID, panelID, Str(""), <<>>, Logged("WindowNotFound"))
          /\ UNCHANGED winID2panelIDs
     ELSE LET panelIDs == winID2panelIDs[winID]
              idx == indexOf(panelIDs, panelID)
          IN IF idx = -1
             THEN /\ last' = Observe("remove", winID, panelID, Str(""), <<>>, Logged("PanelNotFound"))
                  /\ UNCHANGED winID2panelIDs
             ELSE /\ winID2panelIDs' =
                       IF Len(panelIDs) = 1 THEN delete(winID2panelIDs, winID)
                       ELSE assign(winID2panelIDs, winID, splice1(panelIDs, idx))
                  /\ last' = Observe("remove", winID, panelID, Str(""), <<>>, NoEffect)
  /\ UNCHANGED <<openWindows, nextSessionId, id2sessionInfo, held>>

\* ipcMain.on('electron-panel:remove') from the renderer of window winID
RemovePanel(winID, panelID) ==
  /\ winID \in openWindows
  /\ IF winID \notin DOMAIN winID2panelIDs
     THEN /\ last' = Observe("remove", winID, panelID, Str(""), <<>>, Logged("WindowNotFound"))
          /\ UNCHANGED winID2panelIDs
     ELSE LET panelIDs == winID2panelIDs[winID]
              idx == indexOf(panelIDs, panelID)
          IN IF idx = -1
             THEN /\ last' = Observe("remove", winID, panelID, Str(""), <<>>, Logged("PanelNotFound"))
                  /\ UNCHANGED winID2panelIDs
             ELSE /\ winID2panelIDs' = assign(winID2panelIDs, winID, splice1(panelIDs, idx))
                  /\ last' = Observe("remove", winID, panelID, Str(""), <<>>, NoEffect)
  /\ UNCHANGED <<openWindows, nextSessionId, id2sessionInfo, held>>

\* ipcMain.on('electron-panel:clear') from the renderer of window winID
ClearPanels(winID) ==
  /\ winID \in openWindows
  /\ IF winID \notin DOMAIN winID2panelIDs
     THEN /\ last' = Observe("clear", winID, "", Str(""), <<>>, Logged("WindowNotFound"))
          /\ UNCHANGED winID2panelIDs
          /\ UNCHANGED held
     ELSE /\ winID2panelIDs' = delete(winID2panelIDs, winID)
          /\ held' = detach(held, winID)
          /\ last' = Observe("clear", winID, "", Str(""), <<>>, NoEffect)
  /\ UNCHANGED <<openWindows, nextSessionId, id2sessionInfo>>

\* a call of panel.send from main-process code
Send(panelID, message, args, sendResult) ==
  LET eff == send(panelID, message, args, sendResult) IN
  /\ nextSessionId + Len(eff.created) <= MaxSessions + 1
  /\ nextSessionId' = nextSessionId + Len(eff.created)
  /\ id2sessionInfo' = id2sessionInfo \o track(eff)
  /\ last' = Observe("send", null, panelID, message, args, eff)
  /\ UNCHANGED <<winID2panelIDs, openWindows, held>>

\* the renderer2panel message from the webContents of window winID
Renderer2Panel(winID, panelID, message, args, sendResult) ==
  /\ winID \in openWindows
  /\ LET eff == _renderer2panelOpts(winID, panelID, message, args, sendResult) IN
     /\ nextSessionId + Len(eff.created) <= MaxSessions + 1
     /\ nextSessionId' = nextSessionId + Len(eff.created)
     /\ id2sessionInfo' = id2sessionInfo \o track(eff)
     /\ last' = Observe("renderer2panel", winID, panelID, message, args, eff)
  /\ UNCHANGED <<winID2panelIDs, openWindows, held>>

\* the reply to session number n arrives: the tracker closes the session and
\* calls its callback with the reply's arguments
SessionReply(n) ==
  /\ waiting(id2sessionInfo, n)
  /\ LET entry == entryOf(id2sessionInfo, n) IN
     /\ entry.transmitted
     /\ last' = Observe("reply", null, "", Str(""), ReplyArgs,
                        invoke(entry, NoError, ReplyArgs))
  /\ id2sessionInfo' = close(id2sessionInfo, n)
  /\ UNCHANGED <<winID2panelIDs, openWindows, nextSessionId, held>>

\* the timer of session number n fires while the session is waiting: the
\* tracker closes it and calls its callback with a timeout error
SessionTimeout(n) ==
  /\ waiting(id2sessionInfo, n)
  /\ last' = Observe("timeout", null, "", Str(""), <<>>,
                     invoke(entryOf(id2sessionInfo, n), ErrorTimeout, <<TimeoutValue>>))
  /\ id2sessionInfo' = close(id2sessionInfo, n)
  /\ UNCHANGED <<winID2panelIDs, openWindows, nextSessionId, held>>

\* a call of panel.findWindow from main-process code; the observation's win is
\* the window returned
FindWindow(panelID) ==
  /\ last' = Observe("findWindow", findWindow(winID2panelIDs, openWindows, panelID),
                     panelID, Str(""), <<>>, NoEffect)
  /\ UNCHANGED <<winID2panelIDs, openWindows, nextSessionId, id2sessionInfo, held>>

\* mutant: getPanels files an empty array for a window that has no entry
GetPanels_createsEntry(win) ==
  /\ win \in openWindows
  /\ winID2panelIDs' = IF win \in DOMAIN winID2panelIDs THEN winID2panelIDs
                       ELSE assign(winID2panelIDs, win, <<>>)
  /\ held' = <<[win |-> win, live |-> TRUE]>>
  /\ last' = Observe("getPanels", win, "", Str(""), <<>>, NoEffect)
  /\ UNCHANGED <<openWindows, nextSessionId, id2sessionInfo>>

\* a call of panel.getPanels(win) from main-process code: the caller now holds
\* the very array stored in the registry (the observation's `had`), or
\* undefined
GetPanels(win) ==
  /\ win \in openWindows
  /\ held' = IF getPanels(win) = <<>> THEN <<>> ELSE <<[win |-> win, live |-> TRUE]>>
  /\ last' = Observe("getPanels", win, "", Str(""), <<>>, NoEffect)
  /\ UNCHANGED <<winID2panelIDs, openWindows, nextSessionId, id2sessionInfo>>

\* the caller pushes a value onto the array it got from getPanels; while that
\* array is the registry's, the push is a push onto the registry entry
CallerPush(panelID) ==
  /\ held # <<>>
  /\ LET win == held[1].win IN
     /\ IF held[1].live
        THEN /\ Len(winID2panelIDs[win]) < Cardinality(PanelIDs)
             /\ winID2panelIDs' = assign(winID2panelIDs, win, push(winID2panelIDs[win], panelID))
        ELSE UNCHANGED winID2panelIDs
     /\ last' = Observe("callerPush", win, panelID, Str(""), <<>>, NoEffect)
  /\ UNCHANGED <<openWindows, nextSessionId, id2sessionInfo, held>>

\* window lifecycle and control messages only
NextRegistry ==
  \/ \E winID \in WindowIDs : BrowserWindowCreated(winID)
  \/ \E winID \in WindowIDs : WindowClosed(winID)
  \/ \E winID \in WindowIDs, panelID \in PanelIDs : AddPanel(winID, panelID)
  \/ \E winID \in WindowIDs, panelID \in PanelIDs : RemovePanel(winID, panelID)
  \/ \E winID \in WindowIDs : ClearPanels(winID)

SpecRegistry == Init /\ [][NextRegistry]_vars

\* window lifecycle, control messages, the read accessors and what a caller
\* does with the array getPanels returned
NextAccessors ==
  \/ \E winID \in WindowIDs : BrowserWindowCreated(winID)
  \/ \E winID \in WindowIDs : WindowClosed(winID)
  \/ \E winID \in WindowIDs, panelID \in SendPanelIDs : AddPanel(winID, panelID)
  \/ \E winID \in WindowIDs, panelID \in SendPanelIDs : RemovePanel(winID, panelID)
  \/ \E winID \in WindowIDs : ClearPanels(winID)
  \/ \E panelID \in SendPanelIDs : FindWindow(panelID)
  \/ \E winID \in WindowIDs : GetPanels(winID)
  \/ \E panelID \in SendPanelIDs : CallerPush(panelID)

SpecAccessors == Init /\ [][NextAccessors]_vars

\* the panel of the relay specifications
RelayPanelIDs == {"panelA"}

\* window lifecycle, add-panel, the relay, panel.send with a reply callback,
\* replies and timeouts
NextRelay ==
  \/ \E winID \in WindowIDs : BrowserWindowCreated(winID)
  \/ \E winID \in WindowIDs : WindowClosed(winID)
  \/ \E winID \in WindowIDs, panelID \in RelayPanelIDs : AddPanel(winID, panelID)
  \/ \E winID \in WindowIDs, panelID \in RelayPanelIDs, message \in MessageValues,
        args \in RelayArgLists, sendResult \in BOOLEAN :
       /\ Len(id2sessionInfo) < MaxPending
       /\ Renderer2Panel(winID, panelID, message, args, sendResult)
  \/ \E panelID \in RelayPanelIDs :
       /\ Len(id2sessionInfo) < MaxPending
       /\ Send(panelID, Str("say-hello"), <<replyCallback>>, TRUE)
  \/ \E n \in 1..MaxSessions : SessionReply(n)
  \/ \E n \in 1..MaxSessions : SessionTimeout(n)

SpecRelay == Init /\ [][NextRelay]_vars

\* window lifecycle, add-panel, panel.send with a reply callback, replies
\* and timeouts
NextTimer ==
  \/ \E winID \in WindowIDs : BrowserWindowCreated(winID)
  \/ \E winID \in WindowIDs : WindowClosed(winID)
  \/ \E winID \in WindowIDs, panelID \in RelayPanelIDs : AddPanel(winID, panelID)
  \/ \E panelID \in RelayPanelIDs, message \in MessageValues,
        tail \in {<<replyCallback>>, <<replyCallback, Num(100)>>} :
       /\ Len(id2sessionInfo) < MaxPending
       /\ Send(panelID, message, tail, TRUE)
  \/ \E n \in 1..MaxSessions : SessionReply(n)
  \/ \E n \in 1..MaxSessions : SessionTimeout(n)

\* with a fair timer: the timer of a session that stays waiting fires at last
SpecTimer ==
  Init /\ [][NextTimer]_vars /\ \A n \in 1..MaxSessions : WF_vars(SessionTimeout(n))

\* every operation of the module and of the tracker: window lifecycle, the
\* control messages, the relay, panel.send, replies and timeouts, and the read
\* accessors.  Here a request is made when no session is waiting; sessions
\* overlap under SpecRelay
NextFrame ==
  \/ \E winID \in WindowIDs : BrowserWindowCreated(winID)
  \/ \E winID \in WindowIDs : WindowClosed(winID)
  \/ \E winID \in WindowIDs, panelID \in RelayPanelIDs : AddPanel(winID, panelID)
  \/ \E winID \in WindowIDs, panelID \in RelayPanelIDs : RemovePanel(winID, panelID)
  \/ \E winID \in WindowIDs : ClearPanels(winID)
  \/ \E winID \in WindowIDs, panelID \in RelayPanelIDs, args \in RelayArgLists :
       /\ id2sessionInfo = <<>>
       /\ Renderer2Panel(winID, panelID, Str("say-hello"), args, TRUE)
  \/ \E panelID \in RelayPanelIDs, message \in MessageValues,
        tail \in {<<>>, <<replyCallback>>} :
       /\ id2sessionInfo = <<>>
       /\ Send(panelID, message, tail, TRUE)
  \/ \E n \in 1..MaxSessions : SessionReply(n)
  \/ \E n \in 1..MaxSessions : SessionTimeout(n)
  \/ \E panelID \in RelayPanelIDs : FindWindow(panelID)
  \/ \E winID \in WindowIDs : GetPanels(winID)

SpecFrame == Init /\ [][NextFrame]_vars

\* window lifecycle, control messages and panel.send
Next ==
  \/ \E winID \in WindowIDs : BrowserWindowCreated(winID)
  \/ \E winID \in WindowIDs : WindowClosed(winID)
  \/ \E winID \in WindowIDs, panelID \in SendPanelIDs : AddPanel(winID, panelID)
  \/ \E winID \in WindowIDs, panelID \in SendPanelIDs : RemovePanel(winID, panelID)
  \/ \E winID \in WindowIDs : ClearPanels(winID)
  \/ \E panelID \in SendPanelIDs, message \in MessageValues, args \in ArgLists,
        sendResult \in BOOLEAN : Send(panelID, message, args, sendResult)

Spec == Init /\ [][Next]_vars

-----------------------------------------------------------------------------
(* Vocabulary of the properties, stated on the registry itself *)

\* the windows whose registry entry contains panelID
Holders(panelID) ==
  {winID \in DOMAIN winID2panelIDs : panelID \in Range(winID2panelIDs[winID])}

\* panelID is located in some window
Located(panelID) == Holders(panelID) # {}

\* seq with every occurrence of x deleted, order kept
Without(seq, x) == SelectSeq(seq, LAMBDA y : y # x)

\* the other windows' entries are what they were
OthersUnchanged(winID) ==
  /\ (DOMAIN winID2panelIDs') \ {winID} = (DOMAIN winID2panelIDs) \ {winID}
  /\ \A other \in (DOMAIN winID2panelIDs) \ {winID} :
       winID2panelIDs'[other] = winID2panelIDs[other]

-----------------------------------------------------------------------------
(* Registry properties, checked under SpecRegistry *)

\* C1: after any sequence of add-panel, remove-panel, clear-panels control
\* messages and window-closed events, every PanelID is contained in the panel
\* sequence of at most one WindowID's registry entry.
C1_PanelInAtMostOneWindow ==
  \A panelID \in PanelIDs : Cardinality(Holders(panelID)) <= 1

\* C1 witness: two windows hold panels at once and an add of an already
\* registered panel from the other window has just been turned down.
C1_Witness ==
  /\ Cardinality({winID \in DOMAIN winID2panelIDs : winID2panelIDs[winID] # <<>>}) >= 2
  /\ last.op = "add" /\ last.log = "DuplicatePanel"
  /\ Holders(last.panelID) = (DOMAIN winID2panelIDs) \ {last.win}

\* C2: addPanel(w, p) when p is already located in any window (another one or
\* w itself) reports DuplicatePanel and leaves the whole registry as it was.
C2_DuplicateAddIsNoOp ==
  [][(last'.op = "add" /\ Located(last'.panelID))
       => /\ winID2panelIDs' = winID2panelIDs
          /\ last'.log = "DuplicatePanel"]_vars

\* C2 witness: panelA sits in window 1 only, window 2 has just tried to add it
\* and has no entry.
C2_Witness ==
  /\ last.op = "add" /\ last.log = "DuplicatePanel"
  /\ last.panelID = "panelA" /\ last.win = 2
  /\ Holders("panelA") = {1}
  /\ 2 \notin DOMAIN winID2panelIDs

\* C3: for an open window w and a panel p located nowhere, addPanel(w, p)
\* appends p as the last element of w's sequence (creating it if absent) and
\* locateWindow(p) right afterwards is w.
C3_AddAppendsAndLocates ==
  [][(last'.op = "add" /\ ~Located(last'.panelID))
       => LET w == last'.win
              p == last'.panelID
              before == IF w \in DOMAIN winID2panelIDs THEN winID2panelIDs[w] ELSE <<>>
          IN /\ w \in DOMAIN winID2panelIDs'
             /\ winID2panelIDs'[w] = before \o <<p>>
             /\ OthersUnchanged(w)
             /\ findWindow(winID2panelIDs', openWindows', p) = w
             /\ last'.log = "none"]_vars

\* C3 witness: an add has just appended behind two panels already in the window.
C3_Witness ==
  /\ last.op = "add" /\ last.log = "none"
  /\ Len(winID2panelIDs[last.win]) = 3
  /\ winID2panelIDs[last.win][3] = last.panelID

\* C4: a successful removePanel(w, p) removes exactly one element: w's sequence
\* is the previous one with p deleted and the order of the rest kept, every
\* other entry is unchanged, and locateWindow(p) is not-found.
C4_RemoveDeletesExactlyOne ==
  [][(/\ last'.op = "remove"
      /\ last'.win \in DOMAIN winID2panelIDs
      /\ last'.panelID \in Range(winID2panelIDs[last'.win]))
       => LET w == last'.win
              p == last'.panelID
          IN /\ w \in DOMAIN winID2panelIDs'
             /\ winID2panelIDs'[w] = Without(winID2panelIDs[w], p)
             /\ Len(winID2panelIDs'[w]) = Len(winID2panelIDs[w]) - 1
             /\ OthersUnchanged(w)
             /\ findWindow(winID2panelIDs', openWindows', p) = null
             /\ last'.log = "none"]_vars

\* C4 witness: the first of three panels has just been removed and the two
\* behind it remain, in their order.
C4_Witness ==
  /\ last.op = "remove" /\ last.log = "none"
  /\ Len(last.had) = 1 /\ Len(last.had[1]) = 3
  /\ last.had[1][1] = last.panelID
  /\ winID2panelIDs[last.win] = SubSeq(last.had[1], 2, 3)

\* C5: when window w closes its entry is deleted in the same step, so none of
\* the panels of w is located any more; the close never fails, leaves the
\* other entries alone and changes nothing when w has no entry.
C5_CloseDeletesEntry ==
  [][(last'.op = "closed")
       => LET w == last'.win
          IN /\ w \notin DOMAIN winID2panelIDs'
             /\ OthersUnchanged(w)
             /\ w \in DOMAIN winID2panelIDs =>
                  \A p \in Range(winID2panelIDs[w]) : findWindow(winID2panelIDs', openWindows', p) = null
             /\ w \notin DOMAIN winID2panelIDs => winID2panelIDs' = winID2panelIDs
             /\ last'.log = "none"]_vars

\* C5 witness: a window holding two panels has just closed while another
\* window keeps its own panel.
C5_Witness ==
  /\ last.op = "closed"
  /\ Len(last.had) = 1 /\ Len(last.had[1]) = 2
  /\ \A i \in 1..2 : ~Located(last.had[1][i])
  /\ \E other \in DOMAIN winID2panelIDs : winID2panelIDs[other] # <<>>

-----------------------------------------------------------------------------
(* Vocabulary of the send properties, stated on the argument list itself *)

\* args ends with a callback, or with a callback followed by a timeout
HasReply(args) ==
  LET len == Len(args)
  IN \/ len >= 1 /\ args[len].t = "function"
     \/ len >= 2 /\ args[len].t = "number" /\ args[len - 1].t = "function"

\* the callback, the timeout in force and the arguments in front of them
ReplyOf(args) ==
  IF args[Len(args)].t = "function" THEN args[Len(args)] ELSE args[Len(args) - 1]
TimeoutOf(args) ==
  IF args[Len(args)].t = "function" THEN DefaultTimeout ELSE args[Len(args)].n
PlainOf(args) ==
  IF args[Len(args)].t = "function" THEN SubSeq(args, 1, Len(args) - 1)
  ELSE SubSeq(args, 1, Len(args) - 2)

\* the window whose entry holds panelID
Owner(panelID) == CHOOSE winID \in Holders(panelID) : TRUE

\* the step opens no session
NoSessionOpened == last'.created = <<>> /\ nextSessionId' = nextSessionId

-----------------------------------------------------------------------------
(* Send properties, checked under Spec *)

\* C6: send(p, msg, ...args, replyCallback[, timeout]) where p is owned by no
\* window calls replyCallback exactly once before it returns, with a no-panel
\* error carrying p and msg; it transmits nothing, opens no session and
\* returns undefined.
C6_NoPanelCallsReplyOnce ==
  [][(last'.op = "send" /\ HasReply(last'.args) /\ ~Located(last'.panelID))
       => /\ Len(last'.called) = 1
          /\ last'.called[1].fn = ReplyOf(last'.args)
          /\ last'.called[1].err.code = "ENOPANEL"
          /\ last'.called[1].err.panelID = last'.panelID
          /\ last'.called[1].err.message = last'.message
          /\ last'.sent = <<>>
          /\ NoSessionOpened
          /\ last'.ret = <<>>]_vars

\* C6 witness: a send with two arguments, a callback and a timeout to a panel
\* nobody owns has just called the callback, while another panel is registered.
C6_Witness ==
  /\ last.op = "send" /\ Len(last.args) = 4 /\ HasReply(last.args)
  /\ ~Located(last.panelID)
  /\ Len(last.called) = 1
  /\ \E other \in PanelIDs : Located(other)

\* C7 as stated: a send without reply callback opens no session; to a panel
\* nobody owns it transmits nothing; to a panel owned by w it transmits exactly
\* one one-way message (p, msg, args, no session metadata) to w alone.
C7_AsStated ==
  [][(last'.op = "send" /\ ~HasReply(last'.args))
       => /\ NoSessionOpened
          /\ last'.called = <<>> /\ last'.ret = <<>>
          /\ ~Located(last'.panelID) => last'.sent = <<>>
          /\ Located(last'.panelID) =>
               last'.sent = <<[win |-> Owner(last'.panelID), channel |-> "main2panel",
                               panelID |-> last'.panelID, message |-> last'.message,
                               args |-> last'.args]>>]_vars

\* C7 amended: a send without reply callback opens no session, calls nothing
\* and returns undefined; to a panel nobody owns it transmits nothing; to a
\* panel owned by w it transmits, when msg is a string, exactly one one-way
\* message (p, msg, args, no session metadata) to w alone, and nothing when
\* msg is not a string; a delivery failure reported by the transport is only
\* logged.
C7_OneWaySend ==
  [][(last'.op = "send" /\ ~HasReply(last'.args))
       => /\ NoSessionOpened
          /\ last'.called = <<>> /\ last'.ret = <<>>
          /\ ~Located(last'.panelID) => last'.sent = <<>> /\ last'.log = "none"
          /\ (Located(last'.panelID) /\ last'.message.t = "string") =>
               /\ last'.sent = <<[win |-> Owner(last'.panelID), channel |-> "main2panel",
                                  panelID |-> last'.panelID, message |-> last'.message,
                                  args |-> last'.args]>>
               /\ \A i \in 1..Len(last'.sent[1].args) : last'.sent[1].args[i].t # "object"
               /\ last'.log \in {"none", "SendFailed"}
          /\ (Located(last'.panelID) /\ last'.message.t # "string") =>
               last'.sent = <<>> /\ last'.log = "MessageNotString"]_vars

\* C7 witness: a one-way send with arguments to an owned panel went out to the
\* owner and the transport reported a delivery failure.
C7_Witness ==
  /\ last.op = "send" /\ ~HasReply(last.args) /\ Len(last.args) >= 2
  /\ Located(last.panelID)
  /\ Len(last.sent) = 1 /\ last.sent[1].win = Owner(last.panelID)
  /\ last.log = "SendFailed"
  /\ Cardinality(openWindows) >= 2

\* C8: send(p, msg, arg1, arg2, replyCallback, timeout) with a string msg to
\* a panel owned by w opens exactly one session (owner p@main, with the
\* callback and the timeout), transmits exactly one message to w holding msg,
\* arg1, arg2 and an option with the new session id and the wait-for-reply
\* flag, and returns that session id.  Stated for any number of leading
\* arguments and for an omitted timeout as well.
C8_ReplySendOpensOneSession ==
  [][(/\ last'.op = "send" /\ HasReply(last'.args)
      /\ last'.message.t = "string" /\ Located(last'.panelID))
       => LET sid == [panelID |-> last'.panelID, at |-> "main", n |-> nextSessionId]
          IN /\ last'.created = <<[sessionId |-> sid, message |-> last'.message,
                                   callback |-> ReplyOf(last'.args),
                                   timeout |-> TimeoutOf(last'.args)]>>
             /\ nextSessionId' = nextSessionId + 1
             /\ last'.sent =
                  <<[win |-> Owner(last'.panelID), channel |-> "main2panel",
                     panelID |-> last'.panelID, message |-> last'.message,
                     args |-> PlainOf(last'.args) \o
                              <<option([sessionId |-> sid, waitForReply |-> TRUE,
                                        timeout |-> TimeoutOf(last'.args)])>>]>>
             /\ last'.ret = <<sid>>
             /\ last'.called = <<>>]_vars

\* C8 witness: send(p, msg, arg1, arg2, replyCallback, timeout) to a panel owned
\* by window 2 has just returned the second session id of the run.
C8_Witness ==
  /\ last.op = "send" /\ last.message.t = "string"
  /\ last.args = <<Arg(1), Arg(2), replyCallback, Num(100)>>
  /\ Holders(last.panelID) = {2}
  /\ Len(last.created) = 1 /\ Len(last.sent) = 1
  /\ last.ret = <<[panelID |-> last.panelID, at |-> "main", n |-> 2]>>

\* C9: a send whose message name is not a string transmits no message to any
\* window and opens no session, whether or not the panel is owned and whether
\* or not a reply callback is supplied.
C9_NonStringTransmitsNothing ==
  [][(last'.op = "send" /\ last'.message.t # "string")
       => /\ last'.sent = <<>>
          /\ NoSessionOpened
          /\ last'.ret = <<>>]_vars

\* C9 witness: a send with a non-string message and a callback to an owned
\* panel has just been rejected.
C9_Witness ==
  /\ last.op = "send" /\ last.message.t # "string"
  /\ HasReply(last.args) /\ Located(last.panelID)
  /\ last.log = "MessageNotString" /\ last.sent = <<>>

\* C10: every error met by a send that was given a reply callback (no-panel:
\* the panel is owned by no window; malformed message: the message name is not
\* a string) reaches the caller: the callback is called exactly once with a
\* structured error value.
C10_SendErrorsReachCallback ==
  [][(/\ last'.op = "send" /\ HasReply(last'.args)
      /\ (~Located(last'.panelID) \/ last'.message.t # "string"))
       => /\ Len(last'.called) = 1
          /\ last'.called[1].fn = ReplyOf(last'.args)
          /\ last'.called[1].err.code # ""]_vars

-----------------------------------------------------------------------------
(* Further registry properties, checked under SpecRegistry *)

\* C12: a failing remove-panel or clear-panels changes nothing: a remove from
\* a window without entry reports WindowNotFound, a remove of a panel that is
\* not in the sending window's entry (even if another window holds it) reports
\* PanelNotFound, a clear from a window without entry reports WindowNotFound,
\* and each time the whole registry is what it was.
C12_FailedRemoveClearIsNoOp ==
  [][/\ (last'.op = "remove" /\ last'.win \notin DOMAIN winID2panelIDs)
          => last'.log = "WindowNotFound" /\ winID2panelIDs' = winID2panelIDs
     /\ (/\ last'.op = "remove" /\ last'.win \in DOMAIN winID2panelIDs
         /\ last'.panelID \notin Range(winID2panelIDs[last'.win]))
          => last'.log = "PanelNotFound" /\ winID2panelIDs' = winID2panelIDs
     /\ (last'.op = "clear" /\ last'.win \notin DOMAIN winID2panelIDs)
          => last'.log = "WindowNotFound" /\ winID2panelIDs' = winID2panelIDs
     /\ (last'.op \in {"remove", "clear"} /\ last'.log # "none")
          => winID2panelIDs' = winID2panelIDs]_vars

\* C12 witness: a window with an entry of its own has just asked to remove a
\* panel that another window holds, and got PanelNotFound.
C12_Witness ==
  /\ last.op = "remove" /\ last.log = "PanelNotFound"
  /\ last.win \in DOMAIN winID2panelIDs
  /\ Holders(last.panelID) # {} /\ last.win \notin Holders(last.panelID)

\* C18: every WindowID with a registry entry is the id of an open window,
\* whatever the interleaving of window creation, close and control messages;
\* so a window that comes to exist under a reused id starts without entry and
\* no panel is located in it.
C18_EntriesOnlyForOpenWindows ==
  [][/\ DOMAIN winID2panelIDs' \subseteq openWindows'
     /\ last'.op = "created" =>
          /\ last'.win \notin DOMAIN winID2panelIDs'
          /\ \A panelID \in PanelIDs :
               findWindow(winID2panelIDs', openWindows', panelID) # last'.win]_vars

\* C18 witness: a window has just been created without entry while the other
\* window is open and holds panels.
C18_Witness ==
  /\ last.op = "created"
  /\ last.win \notin DOMAIN winID2panelIDs
  /\ \E other \in DOMAIN winID2panelIDs :
       other \in openWindows /\ Len(winID2panelIDs[other]) >= 2

\* C20: an entry is deleted only by window close or clear-panels, never by
\* remove-panel: removing the last panel of w leaves w's entry present and
\* empty, after which a remove from w reports PanelNotFound and a clear from w
\* succeeds and deletes the entry.
C20_EntryDeletedOnlyByCloseOrClear ==
  [][/\ (\E winID \in DOMAIN winID2panelIDs : winID \notin DOMAIN winID2panelIDs')
          => last'.op \in {"closed", "clear"}
     /\ (last'.op = "remove" /\ last'.log = "none")
          => last'.win \in DOMAIN winID2panelIDs'
     /\ \A winID \in DOMAIN winID2panelIDs :
          (winID2panelIDs[winID] = <<>> /\ last'.win = winID) =>
            /\ last'.op = "remove" => last'.log = "PanelNotFound"
            /\ last'.op = "clear" =>
                 last'.log = "none" /\ winID \notin DOMAIN winID2panelIDs']_vars

\* C20 witness: the only panel of a window has just been removed and the
\* window's entry is still there, empty.
C20_Witness ==
  /\ last.op = "remove" /\ last.log = "none"
  /\ Len(last.had) = 1 /\ Len(last.had[1]) = 1
  /\ last.win \in DOMAIN winID2panelIDs
  /\ winID2panelIDs[last.win] = <<>>

-----------------------------------------------------------------------------
(* Exposure of the registry, checked under SpecAccessors *)

\* C13: the registry is never exposed for external mutation: whatever a caller
\* does with the value panelsOf returned, the registry changes only through
\* add, remove, clear and window close, and stays free of panels held twice.
C13_RegistryNotExposed ==
  [][/\ winID2panelIDs' # winID2panelIDs
          => last'.op \in {"add", "remove", "clear", "closed"}
     /\ \A panelID \in PanelIDs :
          Cardinality(Holders(panelID)') <= 1]_vars

-----------------------------------------------------------------------------
(* Relay properties, checked under SpecRelay *)

\* the relay's arguments end with an option asking to wait for a reply
WaitOption(args) ==
  /\ Len(args) > 0
  /\ args[Len(args)].opt # NoOpt
  /\ args[Len(args)].opt[1].waitForReply

\* the relay's arguments in front of a trailing option
RelayPlain(args) ==
  IF Len(args) > 0 /\ args[Len(args)].opt # NoOpt
  THEN SubSeq(args, 1, Len(args) - 1) ELSE args

\* the step takes session number n out of the tracker's table
Closed(n) == waiting(id2sessionInfo, n) /\ ~waiting(id2sessionInfo', n)

\* the step sends something back to a renderer on the reply channel
RepliesToSender == \E i \in 1..Len(last'.sent) : last'.sent[i].channel = "reply"

\* the relay step opened exactly one session of the coordinating process, S'
OpensOneSession ==
  /\ Len(last'.created) = 1
  /\ last'.created[1].sessionId =
       [panelID |-> last'.panelID, at |-> "main", n |-> nextSessionId]
  /\ nextSessionId' = nextSessionId + 1
  /\ Len(id2sessionInfo') = Len(id2sessionInfo) + 1
  /\ ~waiting(id2sessionInfo, nextSessionId) /\ waiting(id2sessionInfo', nextSessionId)

\* the relay step transmitted, to the owner alone, one message tagged with S'
\* and the wait-for-reply flag, and with no other session id
TransmitsTagged ==
  LET sid == [panelID |-> last'.panelID, at |-> "main", n |-> nextSessionId]
  IN last'.sent =
       <<[win |-> Owner(last'.panelID), channel |-> "main2panel",
          panelID |-> last'.panelID, message |-> last'.message,
          args |-> RelayPlain(last'.args) \o
                   <<option([sessionId |-> sid, waitForReply |-> TRUE,
                             timeout |-> last'.args[Len(last'.args)].opt[1].timeout])>>]>>

\* a reply closing the session of a relay whose sender is alive is forwarded:
\* one message, to the sender, holding the reply's arguments and the sender's
\* own session id S, and no id of the coordinating process
ReplyForwardedWithCallersId ==
  \A n \in 1..MaxSessions :
    (/\ last'.op = "reply" /\ Closed(n)
     /\ entryOf(id2sessionInfo, n).callback.s = "forwardReply"
     /\ ~entryOf(id2sessionInfo, n).senderGone)
      => LET fn == entryOf(id2sessionInfo, n).callback IN
         /\ Len(last'.sent) = 1
         /\ last'.sent[1].win = fn.n /\ last'.sent[1].channel = "reply"
         /\ last'.sent[1].args = ReplyArgs \o <<replyOpts(rendererSessionId)>>
         /\ \A m \in 1..MaxSessions, panelID \in PanelIDs :
              ~carries(last'.sent[1], [panelID |-> panelID, at |-> "main", n |-> m])

\* C11 as stated: a relay to a panel owned by w with a wait-for-reply option
\* carrying the caller's session id S opens exactly one session S', transmits
\* exactly one message tagged with S' and the flag to w, and a reply for S'
\* arriving while the sender is alive is delivered to the sender once, tagged S.
C11_AsStated ==
  [][/\ (/\ last'.op = "renderer2panel" /\ WaitOption(last'.args)
         /\ Located(last'.panelID))
          => OpensOneSession /\ TransmitsTagged
     /\ ReplyForwardedWithCallersId]_vars

\* C11 amended: the same, the transmission being claimed for a message name
\* that is a string; with another message name the session S' is opened all
\* the same and nothing is transmitted.
C11_RelayRetagsAndForwardsReply ==
  [][/\ (/\ last'.op = "renderer2panel" /\ WaitOption(last'.args)
         /\ Located(last'.panelID))
          => /\ OpensOneSession
             /\ last'.message.t = "string" => TransmitsTagged
             /\ last'.message.t # "string" => last'.sent = <<>>
     /\ ReplyForwardedWithCallersId]_vars

\* C11 witness: the reply to a relay's session has just been forwarded to the
\* sender, window 1, which is still open, the panel being owned by window 2.
C11_Witness ==
  /\ last.op = "reply"
  /\ Len(last.called) = 1 /\ last.called[1].fn.s = "forwardReply"
  /\ Len(last.sent) = 1 /\ last.sent[1].win = 1
  /\ carries(last.sent[1], rendererSessionId)
  /\ 1 \in openWindows /\ Holders("panelA") = {2}

\* C14: when the callback of a relay's session fires, with a reply or with a
\* timeout error, after the sender's webContents was destroyed, nothing is
\* sent to anyone, nothing is logged or called besides that callback, and no
\* new session is opened (no retry); so no reply-channel message ever goes to
\* a destroyed sender.
C14_DestroyedSenderGetsNothing ==
  [][\A n \in 1..MaxSessions :
       (/\ Closed(n)
        /\ entryOf(id2sessionInfo, n).callback.s = "forwardReply"
        /\ entryOf(id2sessionInfo, n).senderGone)
         => /\ last'.op \in {"reply", "timeout"}
            /\ last'.sent = <<>>
            /\ last'.log = "none"
            /\ last'.called = <<[fn |-> entryOf(id2sessionInfo, n).callback,
                                 err |-> last'.called[1].err]>>
            /\ NoSessionOpened
            /\ id2sessionInfo' = close(id2sessionInfo, n)]_vars

\* C14 witness: the reply to a relay's session has just arrived after the
\* window that sent the request was closed, and nothing was sent.
C14_Witness ==
  /\ last.op = "reply"
  /\ Len(last.called) = 1 /\ last.called[1].fn.s = "forwardReply"
  /\ last.called[1].fn.n \notin openWindows
  /\ last.sent = <<>>
  /\ Located("panelA")

\* C15 as stated: a relay with no extra arguments, or without a wait-for-reply
\* option at the end, opens no session and sends nothing back to the sender;
\* it transmits exactly one one-way message with the same arguments to the
\* owner of the panel, and nothing when nobody owns the panel.
C15_AsStated ==
  [][(last'.op = "renderer2panel" /\ ~WaitOption(last'.args))
       => /\ NoSessionOpened /\ id2sessionInfo' = id2sessionInfo
          /\ ~RepliesToSender /\ last'.called = <<>>
          /\ ~Located(last'.panelID) => last'.sent = <<>>
          /\ Located(last'.panelID) =>
               last'.sent = <<[win |-> Owner(last'.panelID), channel |-> "main2panel",
                               panelID |-> last'.panelID, message |-> last'.message,
                               args |-> last'.args]>>]_vars

\* C15 amended: such a relay opens no session and sends nothing back to the
\* sender; when the panel is owned and the message name is a string it
\* transmits exactly one one-way message to the owner, with the arguments in
\* front of a trailing option (an option that does not ask for a reply is
\* dropped); it transmits nothing when the message name is not a string or
\* nobody owns the panel.
C15_PlainRelay ==
  [][(last'.op = "renderer2panel" /\ ~WaitOption(last'.args))
       => /\ NoSessionOpened /\ id2sessionInfo' = id2sessionInfo
          /\ ~RepliesToSender /\ last'.called = <<>>
          /\ (~Located(last'.panelID) \/ last'.message.t # "string")
               => last'.sent = <<>>
          /\ (Located(last'.panelID) /\ last'.message.t = "string") =>
               /\ last'.sent = <<[win |-> Owner(last'.panelID), channel |-> "main2panel",
                                  panelID |-> last'.panelID, message |-> last'.message,
                                  args |-> RelayPlain(last'.args)]>>
               /\ \A i \in 1..Len(last'.sent[1].args) : last'.sent[1].args[i].opt = NoOpt]_vars

\* C15 witness: a relay with one argument and an option that does not ask for
\* a reply has just gone out as a one-way message to the owner, another
\* window than the sender.
C15_Witness ==
  /\ last.op = "renderer2panel" /\ Len(last.args) = 2
  /\ last.args[2].opt # NoOpt /\ ~last.args[2].opt[1].waitForReply
  /\ Len(last.sent) = 1 /\ last.sent[1].args = <<Arg(1)>>
  /\ last.sent[1].win # last.win
  /\ last.created = <<>>

\* C19: a relay with a wait-for-reply option to a panel nobody owns opens one
\* session of the coordinating process, transmits nothing and calls nothing
\* (no no-panel error goes to the sender at relay time).  Nothing goes to a
\* sender except when a session is closed; a session whose id was never
\* transmitted is closed only by its timeout, which sends the sender, if
\* alive, exactly one message: the timeout error tagged with the sender's own
\* session id; and a closed session's number is never used again.
C19_UnownedRelayAnswersOnlyByTimeout ==
  [][/\ (/\ last'.op = "renderer2panel" /\ WaitOption(last'.args)
         /\ ~Located(last'.panelID))
          => /\ OpensOneSession
             /\ last'.sent = <<>> /\ last'.called = <<>> /\ last'.log = "none"
             /\ ~entryOf(id2sessionInfo', nextSessionId).transmitted
     /\ RepliesToSender
          => /\ last'.op \in {"reply", "timeout"}
             /\ \E n \in 1..MaxSessions : Closed(n)
     /\ \A n \in 1..MaxSessions :
          /\ (~waiting(id2sessionInfo, n) /\ waiting(id2sessionInfo', n))
               => n = nextSessionId /\ nextSessionId' = n + 1
          /\ (Closed(n) /\ ~entryOf(id2sessionInfo, n).transmitted)
               => /\ last'.op = "timeout"
                  /\ LET entry == entryOf(id2sessionInfo, n) IN
                     (entry.callback.s = "forwardReply" /\ ~entry.senderGone)
                       => last'.sent =
                            <<[win |-> entry.callback.n, channel |-> "reply",
                               panelID |-> "", message |-> Str(""),
                               args |-> <<TimeoutValue, replyOpts(rendererSessionId)>>]>>]_vars

\* C19 witness: the session of a relay to a panel nobody owns has just timed
\* out and the timeout error went to the sender, window 2.
C19_Witness ==
  /\ last.op = "timeout"
  /\ Len(last.sent) = 1 /\ last.sent[1].win = 2 /\ last.sent[1].channel = "reply"
  /\ last.sent[1].args[1] = TimeoutValue
  /\ ~Located("panelA")
  /\ 2 \in openWindows

-----------------------------------------------------------------------------
(* Sessions across a window close, checked under SpecTimer *)

\* C17: when a window closes, also the one owning the panel of a send that is
\* waiting for its reply, no session is cancelled or completed by the close and
\* no callback is called; a waiting session is closed only by a reply or its
\* timeout, in a step that calls its callback once; a callback is called by
\* the tracker only in such a step and a session number is never used again,
\* so no callback is called twice; and, the timer being fair, every waiting
\* session is closed at last.
C17_CloseLeavesSessionToTracker ==
  /\ [][/\ last'.op = "closed"
             => /\ last'.called = <<>> /\ last'.sent = <<>>
                /\ Len(id2sessionInfo') = Len(id2sessionInfo)
                /\ \A n \in 1..MaxSessions :
                     waiting(id2sessionInfo', n) <=> waiting(id2sessionInfo, n)
        /\ \A n \in 1..MaxSessions :
             /\ Closed(n)
                  => /\ last'.op \in {"reply", "timeout"}
                     /\ Len(last'.called) = 1
                     /\ last'.called[1].fn = entryOf(id2sessionInfo, n).callback
                     /\ last'.called[1].err.code =
                          IF last'.op = "reply" THEN "" ELSE "ETIMEOUT"
                     /\ Len(id2sessionInfo') = Len(id2sessionInfo) - 1
             /\ (~waiting(id2sessionInfo, n) /\ waiting(id2sessionInfo', n))
                  => n = nextSessionId /\ nextSessionId' = n + 1
        /\ (last'.op \in {"reply", "timeout"} /\ last'.called # <<>>)
             => \E n \in 1..MaxSessions : Closed(n)]_vars
  /\ \A n \in 1..MaxSessions :
       waiting(id2sessionInfo, n) ~> (~waiting(id2sessionInfo, n) /\ nextSessionId > n)

\* C17 witness: the session of a send with a reply callback has just timed
\* out and the callback got the timeout error, after the window that owned
\* the panel at the time of the send was closed.
C17_Witness ==
  /\ last.op = "timeout"
  /\ Len(last.called) = 1 /\ last.called[1].fn = replyCallback
  /\ last.called[1].err.code = "ETIMEOUT"
  /\ ~Located("panelA")

-----------------------------------------------------------------------------
(* Frame of the registry, checked under SpecFrame *)

\* C16: send, the relay, the delivery of a reply or a timeout, locateWindow
\* and panelsOf leave the registry as it is, whether they succeed or fail;
\* a step that changes it is an add-panel, remove-panel, clear-panels or
\* window-closed step.
C16_OnlyRegistryOperationsChangeRegistry ==
  [][/\ last'.op \in {"send", "renderer2panel", "reply", "timeout",
                      "findWindow", "getPanels"}
          => winID2panelIDs' = winID2panelIDs
     /\ winID2panelIDs' # winID2panelIDs
          => last'.op \in {"add", "remove", "clear", "closed"}]_vars

\* C16 witness: a relay whose panel nobody owns has just opened a session while
\* window 1 holds an entry that a remove-panel left empty.
C16_Witness ==
  /\ last.op = "renderer2panel" /\ Len(last.created) = 1 /\ last.sent = <<>>
  /\ 1 \in DOMAIN winID2panelIDs /\ winID2panelIDs[1] = <<>>

=============================================================================
